---- MODULE Spec2Model ----
(***************************************************************************)
(* Model of the Graham value stock screener (src/app.py, second page:      *)
(* lines 45-191).  The state machine is one press of the "Run Screening"   *)
(* button: fetch_aaa_yield, the loop over the tickers calling              *)
(* fetch_financials, and the sort/report/export block.  The market-data    *)
(* provider (yfinance) is an input: what it returns for each ticker and    *)
(* for the bond symbol is chosen in Init.  The Excel writer is a library   *)
(* call outside any try block: it writes the sheet or raises.              *)
(*                                                                         *)
(* Numbers.  Python and numpy floats are IEEE-754 doubles and the model    *)
(* computes with doubles: every +, -, *, / and sqrt is the exact result    *)
(* rounded to nearest-even, so 15 * (49 / 3) is 244.99999999999997 here as *)
(* it is in the program.  Significands are big naturals kept as sequences  *)
(* of 14-bit limbs because TLC's integers have 32 bits.  Values read      *)
(* from stock.info and from the balance sheet are Python ints.             *)
(* Local variables of the program are bound with Call, which evaluates an  *)
(* expression once, as an assignment does.                                 *)
(***************************************************************************)
EXTENDS Integers, Sequences, FiniteSets, TLC

VARIABLES tickers,      \* the ticker list built by the input section
          provider,     \* what yf.Ticker(t) yields for each ticker symbol
          bond,         \* what yf.Ticker("^DAAA").history yields
          pc,           \* position in the button handler
          i,            \* loop position in `for t in tickers`
          yield_value,  \* result of fetch_aaa_yield()
          results,      \* the list `results`
          df_sorted,    \* the sorted frame: sequence of [index, row]
          report,       \* what the handler shows: none/success/no_valid_data/no_tickers
          download      \* what st.download_button offers: None or the file

vars == <<tickers, provider, bond, pc, i, yield_value, results, df_sorted, report, download>>

\* ---------------------------------------------------------------- bounds
MaxTickers == 3
MaxEps == 6
MaxEpsShort == 3

\* ---------------------------------------------------------------- evaluation order
\* Python evaluates an expression once, when it is assigned or passed.  Call(e, F)
\* is F(e) with e evaluated once and handed over as a value.
Call(e, F(_)) == CHOOSE r \in { F(x) : x \in {e} } : TRUE
Call2(e1, e2, F(_, _)) == CHOOSE r \in { F(x, y) : x \in {e1}, y \in {e2} } : TRUE

\* ---------------------------------------------------------------- big naturals
\* A natural number as its base-2^14 limbs, least significant first, without
\* leading zero limbs (zero is <<>>).  Every intermediate fits a 32-bit integer.
Base == 2^14
LimbBits == 14
SqrtGuessBits == 30

Max(x, y) == IF x > y THEN x ELSE y
Min(x, y) == IF x < y THEN x ELSE y

\* index of the highest non-zero limb among a[1..j], 0 if there is none
RECURSIVE TopLimb(_, _)
TopLimb(a, j) == IF j = 0 THEN 0 ELSE IF a[j] # 0 THEN j ELSE TopLimb(a, j - 1)

BTrim(a) == Call(a, LAMBDA x : SubSeq(x, 1, TopLimb(x, Len(x))))

Limb(a, j) == IF j <= Len(a) THEN a[j] ELSE 0

RECURSIVE BAddFrom(_, _, _, _)
BAddFrom(a, b, j, c) ==
    IF j > Len(a) /\ j > Len(b) THEN (IF c = 0 THEN <<>> ELSE <<c>>)
    ELSE Call(Limb(a, j) + Limb(b, j) + c,
              LAMBDA t : <<t % Base>> \o BAddFrom(a, b, j + 1, t \div Base))

BAdd(a, b) == Call2(a, b, LAMBDA x, y : BAddFrom(x, y, 1, 0))

\* a - b for a >= b
RECURSIVE BSubFrom(_, _, _, _)
BSubFrom(a, b, j, c) ==
    IF j > Len(a) THEN <<>>
    ELSE Call(a[j] - Limb(b, j) - c,
              LAMBDA t : IF t < 0 THEN <<t + Base>> \o BSubFrom(a, b, j + 1, 1)
                         ELSE <<t>> \o BSubFrom(a, b, j + 1, 0))

BSub(a, b) == Call2(a, b, LAMBDA x, y : BTrim(BSubFrom(x, y, 1, 0)))

\* -1, 0, 1 as a < b, a = b, a > b
RECURSIVE BCmpFrom(_, _, _)
BCmpFrom(a, b, j) ==
    IF j = 0 THEN 0
    ELSE IF a[j] < b[j] THEN -1
    ELSE IF a[j] > b[j] THEN 1
    ELSE BCmpFrom(a, b, j - 1)

BCmp(a, b) ==
    Call2(a, b, LAMBDA x, y : IF Len(x) < Len(y) THEN -1
                              ELSE IF Len(x) > Len(y) THEN 1
                              ELSE BCmpFrom(x, y, Len(x)))

\* a * k for 0 <= k < 2^16
RECURSIVE BMulSmallFrom(_, _, _, _)
BMulSmallFrom(a, k, j, c) ==
    IF j > Len(a) THEN BTrim(<<c % Base, c \div Base>>)
    ELSE Call(a[j] * k + c,
              LAMBDA t : <<t % Base>> \o BMulSmallFrom(a, k, j + 1, t \div Base))

BMulSmall(a, k) ==
    Call2(a, k, LAMBDA x, y : IF y = 0 THEN <<>> ELSE BMulSmallFrom(x, y, 1, 0))

BShlLimbs(a, n) == Call(a, LAMBDA x : IF x = <<>> THEN x ELSE [j \in 1..n |-> 0] \o x)

RECURSIVE BMulFrom(_, _, _)
BMulFrom(a, b, j) ==
    IF j > Len(b) THEN <<>>
    ELSE BAdd(BMulSmall(a, b[j]), BShlLimbs(BMulFrom(a, b, j + 1), 1))

BMul(a, b) == Call2(a, b, LAMBDA x, y : BMulFrom(x, y, 1))

\* floor(a / k) for 0 < k < 2^17, limbs j..1 with incoming remainder r
RECURSIVE BDivSmallFrom(_, _, _, _)
BDivSmallFrom(a, k, j, r) ==
    IF j = 0 THEN <<>>
    ELSE Call(r * Base + a[j],
              LAMBDA t : BDivSmallFrom(a, k, j - 1, t % k) \o <<t \div k>>)

BDivSmall(a, k) == Call2(a, k, LAMBDA x, y : BTrim(BDivSmallFrom(x, y, Len(x), 0)))

BShl(a, n) ==
    Call2(a, n, LAMBDA x, y : BShlLimbs(BMulSmall(x, 2^(y % LimbBits)), y \div LimbBits))

BShr(a, n) ==
    Call2(a, n, LAMBDA x, y :
        IF y \div LimbBits >= Len(x) THEN <<>>
        ELSE BDivSmall(SubSeq(x, y \div LimbBits + 1, Len(x)), 2^(y % LimbBits)))

RECURSIVE BitLenSmall(_)
BitLenSmall(x) == IF x = 0 THEN 0 ELSE 1 + BitLenSmall(x \div 2)

BitLen(a) ==
    Call(a, LAMBDA x : IF x = <<>> THEN 0
                       ELSE LimbBits * (Len(x) - 1) + BitLenSmall(x[Len(x)]))

\* bit p (p >= 0) of a
TestBit(a, p) == Call(p, LAMBDA q : (Limb(a, q \div LimbBits + 1) \div 2^(q % LimbBits)) % 2)

\* some bit of a below bit p is set
LowNonzero(a, p) ==
    Call(p, LAMBDA q : \/ \E j \in 1..(q \div LimbBits) : Limb(a, j) # 0
                       \/ Limb(a, q \div LimbBits + 1) % 2^(q % LimbBits) # 0)

RECURSIVE BFromNat(_)
BFromNat(x) == IF x = 0 THEN <<>> ELSE <<x % Base>> \o BFromNat(x \div Base)

\* number of trailing zero bits of a > 0
RECURSIVE TrailingZerosSmall(_)
TrailingZerosSmall(x) == IF x % 2 = 1 THEN 0 ELSE 1 + TrailingZerosSmall(x \div 2)

RECURSIVE TrailingZerosFrom(_, _)
TrailingZerosFrom(a, j) ==
    IF a[j] = 0 THEN LimbBits + TrailingZerosFrom(a, j + 1) ELSE TrailingZerosSmall(a[j])

TrailingZeros(a) == Call(a, LAMBDA x : TrailingZerosFrom(x, 1))

\* the largest q <= qhat with b * q <= r
RECURSIVE BFitDigit(_, _, _)
BFitDigit(r, b, qhat) ==
    Call(qhat, LAMBDA q : IF BCmp(BMulSmall(b, q), r) > 0 THEN BFitDigit(r, b, q - 1) ELSE q)

\* the next quotient digit: the top two limbs of r by the top limb of b, made to fit
BDigit(r, b) ==
    IF BCmp(r, b) < 0 THEN 0
    ELSE Call((Limb(r, Len(b) + 1) * Base + Limb(r, Len(b))) \div b[Len(b)],
              LAMBDA est : BFitDigit(r, b, Min(est, Base - 1)))

\* schoolbook long division of limbs a[j..1] by b, whose top limb is at least
\* Base / 2, with the running remainder r < b: [q |-> quotient, r |-> remainder]
RECURSIVE BDivFrom(_, _, _, _, _)
BDivFrom(a, b, j, q, r) ==
    IF j = 0 THEN [q |-> BTrim(q), r |-> r]
    ELSE Call(BTrim(<<a[j]>> \o r), LAMBDA r1 :
         Call(BDigit(r1, b), LAMBDA d :
              BDivFrom(a, b, j - 1, Call(q, LAMBDA q0 : <<d>> \o q0),
                       BSub(r1, BMulSmall(b, d)))))

\* floor(a / b) for b > 0 as q, and r = <<>> exactly when b divides a
BDivMod(a, b) ==
    Call2(a, b, LAMBDA x, y :
        Call2(BShl(x, LimbBits - BitLenSmall(y[Len(y)])),
              BShl(y, LimbBits - BitLenSmall(y[Len(y)])),
              LAMBDA xs, ys : BDivFrom(xs, ys, Len(xs), <<>>, <<>>)))

\* floor(sqrt(x)) for lo <= floor(sqrt(x)) <= hi, by bisection
RECURSIVE ISqrtB(_, _, _)
ISqrtB(x, lo, hi) ==
    Call2(lo, hi, LAMBDA l, h :
        IF l = h THEN l
        ELSE Call((l + h + 1) \div 2, LAMBDA mid :
                 IF mid * mid <= x THEN ISqrtB(x, mid, h) ELSE ISqrtB(x, l, mid - 1)))

\* Newton's iteration for floor(sqrt(n)) from an x >= floor(sqrt(n))
RECURSIVE BSqrtNewton(_, _)
BSqrtNewton(n, x) ==
    Call(BShr(BAdd(x, BDivMod(n, x).q), 1),
         LAMBDA y : IF BCmp(y, x) < 0 THEN BSqrtNewton(n, y) ELSE x)

\* floor(sqrt(n)) for n > 0: the first guess is the root of the top 30 bits of n,
\* plus one, scaled back
BSqrt(n) ==
    Call(n, LAMBDA v :
    Call(Max(0, (BitLen(v) - SqrtGuessBits + 1) \div 2), LAMBDA k :
    Call(BShr(v, 2 * k), LAMBDA hi :
    Call(Limb(hi, 3) * Base * Base + Limb(hi, 2) * Base + Limb(hi, 1), LAMBDA top :
         BSqrtNewton(v, BShl(BFromNat(ISqrtB(top, 0, 2^(SqrtGuessBits \div 2)) + 1), k))))))

\* ---------------------------------------------------------------- doubles
\* An IEEE-754 binary64 value: [k |-> "num", s, m, e] is (-1)^s * m * 2^e with m a
\* big natural of at most 53 bits, odd (so that each value has one form), or <<>>
\* for the two zeros; NaN and the infinities are the other kinds.  Every operation
\* computes the exact result and rounds it to nearest, ties to even, as the hardware
\* does, including the subnormal range and the overflow to infinity.
Dbl(s, m, e) == [k |-> "num", s |-> s, m |-> m, e |-> e]
Zero == Dbl(0, <<>>, 0)
NaN == [k |-> "nan", s |-> 0, m |-> <<>>, e |-> 0]
Inf == [k |-> "inf", s |-> 0, m |-> <<>>, e |-> 0]
NegInf == [k |-> "inf", s |-> 1, m |-> <<>>, e |-> 0]

IsZero(a) == Call(a, LAMBDA x : x.k = "num" /\ x.m = <<>>)

MantissaBits == 53
MinExponent == -1074
MaxExponent == 1024

\* M * 2^E of at most 53 bits in its one form
Pack(s, M, E) ==
    Call2(M, E, LAMBDA m, e :
        IF m = <<>> THEN Dbl(s, <<>>, 0)
        ELSE IF BitLen(m) + e > MaxExponent THEN (IF s = 0 THEN Inf ELSE NegInf)
        ELSE Call(TrailingZeros(m), LAMBDA tz : Dbl(s, BShr(m, tz), e + tz)))

\* round to nearest, ties to even: M loses its low sh bits, q is what is left
RoundsUp(M, sh, q, sticky) ==
    /\ TestBit(M, sh - 1) = 1
    /\ (sticky \/ LowNonzero(M, sh - 1) \/ Limb(q, 1) % 2 = 1)

\* the double nearest to (-1)^s * M * 2^E, where sticky says that the exact value
\* lies strictly above M * 2^E (below (M + 1) * 2^E): BitLen(M) > 53 then
RoundPack(s, M, E, sticky) ==
    Call2(M, E, LAMBDA m, e :
    Call(Max(BitLen(m) - MantissaBits, MinExponent - e), LAMBDA sh :
        IF sh <= 0 THEN Pack(s, m, e)
        ELSE Call(BShr(m, sh), LAMBDA q :
                 Pack(s, IF RoundsUp(m, sh, q, sticky) THEN BAdd(q, <<1>>) ELSE q, e + sh))))

\* float(x) for a Python int |x| < 2^31
I(x) == Call(x, LAMBDA v : Pack(IF v < 0 THEN 1 ELSE 0, BFromNat(IF v < 0 THEN -v ELSE v), 0))

Neg(a) == Call(a, LAMBDA x : IF x.k = "nan" THEN x ELSE [x EXCEPT !.s = 1 - x.s])

\* -1, 0, 1 as |a| < |b|, |a| = |b|, |a| > |b| for non-zero finite doubles
CmpMagnitudes(a, b) ==
    Call2(BitLen(a.m) + a.e, BitLen(b.m) + b.e, LAMBDA ta, tb :
        IF ta < tb THEN -1
        ELSE IF ta > tb THEN 1
        ELSE BCmp(BShl(a.m, a.e - Min(a.e, b.e)), BShl(b.m, b.e - Min(a.e, b.e))))

\* |a| + |b| or |a| - |b| of two non-zero finite doubles, signed as a
AddMagnitudes(a, b, subtract) ==
    Call2(BShl(a.m, a.e - Min(a.e, b.e)), BShl(b.m, b.e - Min(a.e, b.e)), LAMBDA ma, mb :
        IF ~subtract THEN RoundPack(a.s, BAdd(ma, mb), Min(a.e, b.e), FALSE)
        ELSE Call(BCmp(ma, mb), LAMBDA c :
                 IF c = 0 THEN Zero
                 ELSE IF c > 0 THEN RoundPack(a.s, BSub(ma, mb), Min(a.e, b.e), FALSE)
                 ELSE RoundPack(1 - a.s, BSub(mb, ma), Min(a.e, b.e), FALSE)))

Add(x, y) ==
    Call2(x, y, LAMBDA a, b :
        IF a.k = "nan" \/ b.k = "nan" THEN NaN
        ELSE IF a.k = "inf" /\ b.k = "inf" THEN (IF a.s = b.s THEN a ELSE NaN)
        ELSE IF a.k = "inf" THEN a
        ELSE IF b.k = "inf" THEN b
        ELSE IF IsZero(a) /\ IsZero(b) THEN (IF a.s = b.s THEN a ELSE Zero)
        ELSE IF IsZero(a) THEN b
        ELSE IF IsZero(b) THEN a
        ELSE AddMagnitudes(a, b, a.s # b.s))

Sub(a, b) == Add(a, Neg(b))

SignXor(a, b) == IF a.s = b.s THEN 0 ELSE 1

Mul(x, y) ==
    Call2(x, y, LAMBDA a, b :
        IF a.k = "nan" \/ b.k = "nan" THEN NaN
        ELSE IF a.k = "inf" \/ b.k = "inf"
             THEN (IF IsZero(a) \/ IsZero(b) THEN NaN
                   ELSE IF SignXor(a, b) = 0 THEN Inf ELSE NegInf)
        ELSE IF IsZero(a) \/ IsZero(b) THEN Dbl(SignXor(a, b), <<>>, 0)
        ELSE RoundPack(SignXor(a, b), BMul(a.m, b.m), a.e + b.e, FALSE))

\* the quotient of two non-zero finite doubles: enough bits of a.m / b.m to round
DivFinite(a, b) ==
    Call(Max(0, MantissaBits + 3 + BitLen(b.m) - BitLen(a.m)), LAMBDA t :
    Call(BDivMod(BShl(a.m, t), b.m), LAMBDA d :
         RoundPack(SignXor(a, b), d.q, a.e - t - b.e, d.r # <<>>)))

\* numpy float division: x / 0 is +-inf (0 / 0 is nan), with a warning, no exception
Div(x, y) ==
    Call2(x, y, LAMBDA a, b :
        IF a.k = "nan" \/ b.k = "nan" THEN NaN
        ELSE IF a.k = "inf" /\ b.k = "inf" THEN NaN
        ELSE IF b.k = "inf" THEN Dbl(SignXor(a, b), <<>>, 0)
        ELSE IF a.k = "inf" THEN (IF SignXor(a, b) = 0 THEN Inf ELSE NegInf)
        ELSE IF IsZero(b)
             THEN (IF IsZero(a) THEN NaN ELSE IF SignXor(a, b) = 0 THEN Inf ELSE NegInf)
        ELSE IF IsZero(a) THEN Dbl(SignXor(a, b), <<>>, 0)
        ELSE DivFinite(a, b))

\* the root of a finite double above zero: a.m is shifted by t to make the
\* exponent even and the root long enough to round
SqrtFinite(a) ==
    Call(Max(0, 2 * (MantissaBits + 2) - BitLen(a.m)), LAMBDA t0 :
    Call(IF (a.e - t0) % 2 = 0 THEN t0 ELSE t0 + 1, LAMBDA t :
    Call(BShl(a.m, t), LAMBDA n :
    Call(BSqrt(n), LAMBDA r :
         RoundPack(0, r, (a.e - t) \div 2, BMul(r, r) # n)))))

\* np.sqrt: nan (with a warning) below zero
Sqrt(x) ==
    Call(x, LAMBDA a :
        IF a.k = "nan" THEN NaN
        ELSE IF IsZero(a) THEN a
        ELSE IF a.s = 1 THEN NaN
        ELSE IF a.k = "inf" THEN Inf
        ELSE SqrtFinite(a))

\* a < b for finite doubles
LtFinite(a, b) ==
    IF IsZero(a) THEN ~IsZero(b) /\ b.s = 0
    ELSE IF IsZero(b) THEN a.s = 1
    ELSE IF a.s # b.s THEN a.s = 1
    ELSE IF a.s = 0 THEN CmpMagnitudes(a, b) < 0
    ELSE CmpMagnitudes(a, b) > 0

\* a < b as IEEE compares: anything involving NaN is false
Lt(x, y) ==
    Call2(x, y, LAMBDA a, b :
        IF a.k = "nan" \/ b.k = "nan" THEN FALSE
        ELSE IF a.k = "inf" /\ b.k = "inf" THEN a.s = 1 /\ b.s = 0
        ELSE IF a.k = "inf" THEN a.s = 1
        ELSE IF b.k = "inf" THEN b.s = 0
        ELSE LtFinite(a, b))

Eq(x, y) ==
    Call2(x, y, LAMBDA a, b :
        a.k # "nan" /\ b.k # "nan" /\ (a = b \/ (IsZero(a) /\ IsZero(b))))

Gt(a, b) == Lt(b, a)
Le(x, y) == Call2(x, y, LAMBDA a, b : Lt(a, b) \/ Eq(a, b))

\* the literals 22.5, 8.5, 1.5 and 4.4 (0x1.199999999999ap+2) as doubles
C22_5 == Dbl(0, <<45>>, -1)
C8_5 == Dbl(0, <<17>>, -1)
C1_5 == Dbl(0, <<3>>, -1)
C4_4 == Dbl(0, <<3277, 13107, 3276, 563>>, -49)

\* ---------------------------------------------------------------- sequences
\* the reduction of np.add over fewer than 8 items: the first item, then each next
\* one added in order
RECURSIVE SumFrom(_, _, _)
SumFrom(s, j, acc) == IF j > Len(s) THEN acc ELSE SumFrom(s, j + 1, Add(acc, s[j]))

SumNum(s) == SumFrom(s, 2, s[1])

\* np.mean: nan for an empty list
Mean(s) == IF s = <<>> THEN NaN ELSE Div(SumNum(s), I(Len(s)))

\* Python s[-k:]
LastK(s, k) == IF Len(s) <= k THEN s ELSE SubSeq(s, Len(s) - k + 1, Len(s))

\* Series.dropna()
NotNaN(x) == x.k # "nan"
DropNa(s) == SelectSeq(s, NotNaN)

\* dict.get(key, default)
Get(info, key, default) == IF key \in DOMAIN info THEN info[key] ELSE default

\* bs.loc[key, col] if key in bs.index else 0
BsOr0(bs, key) == IF key \in DOMAIN bs.rows THEN bs.rows[key] ELSE 0

\* ---------------------------------------------------------------- fetch_aaa_yield
\* history["Close"].dropna().iloc[-1]; any exception (no data, empty column) gives 4.4
DefaultYield == C4_4

FetchAaaYield(b) ==
    IF b.kind = "raise" THEN DefaultYield
    ELSE LET close == DropNa(b.close)
         IN  IF close = <<>> THEN DefaultYield ELSE close[Len(close)]

\* ---------------------------------------------------------------- fetch_financials
CurrentAssetKeys == <<"CashAndCashEquivalents", "AccountsReceivable", "Inventory",
                      "OtherShortTermInvestments">>
LiabilityKeys == <<"TotalDebt", "AccountsPayable", "OtherCurrentLiabilities", "TaxPayable">>

RECURSIVE SumKeys(_, _)
SumKeys(bs, keys) ==
    IF keys = <<>> THEN 0 ELSE BsOr0(bs, Head(keys)) + SumKeys(bs, Tail(keys))

EstCurrentAssets(bs) ==
    IF "Total Current Assets" \in DOMAIN bs.rows
    THEN bs.rows["Total Current Assets"]
    ELSE SumKeys(bs, CurrentAssetKeys)

EstTotalLiabilities(bs) == SumKeys(bs, LiabilityKeys)

\* lines 88-93.  The isinstance filter of line 93 keeps every entry: each is a
\* numpy float64 (a subclass of float) produced by the division.
EpsValues(info, inc) ==
    LET shares_outstanding == Get(info, "sharesOutstanding", 0)
    IN  IF "Net Income" \in DOMAIN inc /\ shares_outstanding # 0
        THEN LET net_incomes == DropNa(inc["Net Income"])
             IN  IF shares_outstanding > 0
                 THEN [j \in 1..Len(net_incomes) |->
                          Div(net_incomes[j], I(shares_outstanding))]
                 ELSE <<>>
        ELSE <<>>

EpsAvg(eps_values, window) ==
    IF Len(eps_values) >= 3 THEN Mean(LastK(eps_values, window)) ELSE Mean(eps_values)

Eps7yrAvg(eps_values) == EpsAvg(eps_values, 7)
Eps5yrAvg(eps_values) == EpsAvg(eps_values, 5)

IsPositive(e) == Gt(e, Zero)

\* mutant: growth between the first and last entries of the raw series
EpsGrowthRawEnds(eps_values) ==
    IF Len(eps_values) >= 2 /\ Gt(eps_values[1], Zero)
    THEN Div(Sub(eps_values[Len(eps_values)], eps_values[1]), eps_values[1])
    ELSE Zero

EpsGrowth(eps_values) ==
    IF Len(eps_values) >= 2
    THEN Call(SelectSeq(eps_values, IsPositive), LAMBDA valid_eps :
             IF Len(valid_eps) >= 2
             THEN LET oldest == valid_eps[1]
                      latest == valid_eps[Len(valid_eps)]
                  IN  IF Gt(oldest, Zero)
                      THEN Div(Sub(latest, oldest), oldest)
                      ELSE Zero
             ELSE Zero)
    ELSE Zero

\* np.sqrt(22.5 * eps_7yr_avg * bvps): the products left to right
GrahamNumber(eps_7yr_avg, bvps) ==
    IF Gt(eps_7yr_avg, Zero) /\ bvps > 0
    THEN Sqrt(Mul(Mul(C22_5, eps_7yr_avg), I(bvps)))
    ELSE NaN

\* eps_5yr_avg * (8.5 + 2 * eps_growth) * (4.4 / current_bond_yield)
GrahamValue(eps_5yr_avg, eps_growth, current_bond_yield) ==
    IF Gt(eps_5yr_avg, Zero)
    THEN Mul(Mul(eps_5yr_avg, Add(C8_5, Mul(I(2), eps_growth))),
             Div(C4_4, current_bond_yield))
    ELSE NaN

PriceCeiling(eps_5yr_avg) ==
    IF Gt(eps_5yr_avg, Zero) THEN Mul(I(15), eps_5yr_avg) ELSE Zero

CriteriaNames == <<"Revenue > $100M",
                   "Current Ratio > 2",
                   "Estimated Current Assets - Liabilities > 0",
                   "Pays Dividends",
                   "Positive EPS for 5 Years",
                   "Price <= 15 x 3Y Avg EPS",
                   "P/B < 1.5">>

CountPositive(s) == Len(SelectSeq(s, IsPositive))

\* lines 111-126
Criteria(info, bs, eps_values, eps_5yr_avg) ==
    LET current_ratio == Get(info, "currentRatio", 0)
        revenue == Get(info, "totalRevenue", 0)
        pb_ratio == Get(info, "priceToBook", 0)
        current_price == Get(info, "currentPrice", 0)
        dividend_rate == Get(info, "dividendRate", 0)
        price_ceiling == PriceCeiling(eps_5yr_avg)
    IN  (CriteriaNames[1] :> (revenue > 100000000))
     @@ (CriteriaNames[2] :> (current_ratio > 2))
     @@ (CriteriaNames[3] :> (EstCurrentAssets(bs) > EstTotalLiabilities(bs)))
     @@ (CriteriaNames[4] :> (dividend_rate > 0))
     @@ (CriteriaNames[5] :> (CountPositive(LastK(eps_values, 5)) >= 4))
     @@ (CriteriaNames[6] :> Le(I(current_price), price_ceiling))
     @@ (CriteriaNames[7] :> Lt(I(pb_ratio), C1_5))

\* mutant: the sum leaves out the last criterion
PassedSkipLast(criteria) ==
    Cardinality({c \in DOMAIN criteria \ {CriteriaNames[7]} : criteria[c]})

\* sum(criteria.values())
Passed(criteria) == Cardinality({c \in DOMAIN criteria : criteria[c]})

None == <<>>

\* a column label of the balance sheet: a pandas Timestamp, a string or a number
Timestamp(s) == [type |-> "timestamp", str |-> s, num |-> 0]
StrLabel(s) == [type |-> "str", str |-> s, num |-> 0]
NumLabel(n) == [type |-> "num", str |-> "", num |-> n]

\* bool(label): a Timestamp is true, a string unless it is empty, a number unless 0
LabelTruthy(l) ==
    CASE l.type = "timestamp" -> TRUE
      [] l.type = "str" -> l.str # ""
      [] l.type = "num" -> l.num # 0

\* lines 71-73: col = bs.columns[0] if len(bs.columns) > 0 else None; if not col: return None
HasColumn(bs) == Len(bs.columns) > 0 /\ LabelTruthy(bs.columns[1])

\* `if data:` - None and the empty dict are falsy
Truthy(data) == DOMAIN data # {}

\* an exception escaping the body of the try block
Raised == "raised" :> TRUE
IsRaised(data) == "raised" \in DOMAIN data

\* lines 67-139: the body of the try block.  The provider calls of lines 67-70 are
\* where the modelled exceptions come from.
FetchFinancialsBody(ticker, data, current_bond_yield) ==
    IF data.kind = "raise" THEN Raised
    ELSE IF ~HasColumn(data.bs) THEN None
    ELSE Call(EpsValues(data.info, data.inc), LAMBDA eps_values :
         Call2(Eps7yrAvg(eps_values), Eps5yrAvg(eps_values), LAMBDA eps_7yr_avg, eps_5yr_avg :
         Call2(EpsGrowth(eps_values), Criteria(data.info, data.bs, eps_values, eps_5yr_avg),
               LAMBDA eps_growth, criteria :
             LET bvps == Get(data.info, "bookValue", 0)
             IN  ("Ticker" :> ticker)
              @@ ("Passed Count" :> Passed(criteria))
              @@ ("EPS Growth" :> eps_growth)
              @@ ("BVPS" :> bvps)
              @@ ("Current Price" :> Get(data.info, "currentPrice", 0))
              @@ ("Graham Number" :> GrahamNumber(eps_7yr_avg, bvps))
              @@ ("Graham Value" :> GrahamValue(eps_5yr_avg, eps_growth, current_bond_yield))
              @@ criteria)))

\* mutant: the try block without its except clause
FetchFinancialsNoExcept(ticker, data, current_bond_yield) ==
    FetchFinancialsBody(ticker, data, current_bond_yield)

\* lines 65-66, 141-142: try: ... except Exception: return None
FetchFinancials(ticker, data, current_bond_yield) ==
    Call(FetchFinancialsBody(ticker, data, current_bond_yield),
         LAMBDA r : IF IsRaised(r) THEN None ELSE r)

\* ---------------------------------------------------------------- df.sort_values
\* sort_values("Passed Count", ascending=False) with the default kind="quicksort",
\* which is not a stable sort: the order of rows with equal keys depends on the
\* numpy build, so every descending arrangement is a possible outcome.  Each entry
\* keeps the frame index (the row's position in `results`, 1-based here).
IsDescending(df, p) ==
    \A a, b \in 1..Len(df) :
        a < b => df[p[a]]["Passed Count"] >= df[p[b]]["Passed Count"]

SortValues(df) ==
    { [a \in 1..Len(df) |-> [index |-> p[a], row |-> df[p[a]]]] :
        p \in { q \in Permutations(1..Len(df)) : IsDescending(df, q) } }

\* ---------------------------------------------------------------- df.to_excel
\* lines 130-139: the keys of the row dict in insertion order, which is the
\* column order of pd.DataFrame(results)
ColumnOrder ==
    <<"Ticker", "Passed Count", "EPS Growth", "BVPS", "Current Price",
      "Graham Number", "Graham Value">> \o CriteriaNames

\* the columns that hold floats
FloatColumns == {"EPS Growth", "Graham Number", "Graham Value"}

\* to_excel writes nan as an empty cell (na_rep="") and an infinity as the text
\* "inf" or "-inf" (inf_rep="inf"); every other value is written as it is
ExcelCell(column, value) ==
    IF column \notin FloatColumns THEN value
    ELSE CASE value.k = "nan" -> ""
           [] value.k = "inf" -> IF value.s = 1 THEN "-inf" ELSE "inf"
           [] OTHER -> value

\* lines 179-181: df_sorted.to_excel(writer, index=False): the header, then one
\* line per row of the frame in its order, without the frame index
ToExcel(df) ==
    [header |-> ColumnOrder,
     lines |-> [k \in 1..Len(df) |->
                  [c \in 1..Len(ColumnOrder) |->
                      ExcelCell(ColumnOrder[c], df[k].row[ColumnOrder[c]])]]]

\* lines 182-187: st.download_button(data=output.getvalue(), file_name=...)
DownloadButton(sheet) ==
    [file_name |-> "graham_screening_results.xlsx", data |-> sheet]
\* ---------------------------------------------------------------- provider data
TickerNames == {"A", "B", "C"}

Raise == [kind |-> "raise"]
Ok(info, bs, inc) == [kind |-> "ok", info |-> info, bs |-> bs, inc |-> inc]

Bs(columns, rows) == [columns |-> columns, rows |-> rows]
NoRows == [k \in {} |-> 0]
Years == <<Timestamp("2023-12-31"), Timestamp("2022-12-31")>>
BsNoColumns == Bs(<<>>, NoRows)
BsTotal == Bs(Years, ("Total Current Assets" :> 500) @@ ("TotalDebt" :> 200))
BsTotalLow == Bs(Years, ("Total Current Assets" :> 200) @@ ("TotalDebt" :> 150)
                         @@ ("AccountsPayable" :> 50))
BsParts == Bs(Years, ("CashAndCashEquivalents" :> 100) @@ ("Inventory" :> 50)
                      @@ ("TotalDebt" :> 120) @@ ("TaxPayable" :> 10))
BsEmpty == Bs(Years, NoRows)
\* sheets whose first column label is falsy: 0 and the empty string
BsZeroLabel == Bs(<<NumLabel(0), NumLabel(1)>>, BsTotal.rows)
BsBlankLabel == Bs(<<StrLabel("")>>, BsTotal.rows)
BsNamedLabel == Bs(<<StrLabel("FY2023"), NumLabel(0)>>, BsTotal.rows)
BsSet == {BsNoColumns, BsTotal, BsTotalLow, BsParts, BsEmpty,
          BsZeroLabel, BsBlankLabel, BsNamedLabel}

NetIncome(seq) == "Net Income" :> [j \in 1..Len(seq) |-> I(seq[j])]
NoIncome == [k \in {} |-> <<>>]

SeqsUpTo(S, n) == UNION { [1..m -> S] : m \in 0..n }

Restrict(f, P) == [k \in P |-> f[k]]

FullInfo == ("totalRevenue" :> 150000000) @@ ("currentRatio" :> 3) @@ ("dividendRate" :> 1)
            @@ ("priceToBook" :> 2) @@ ("bookValue" :> 25)

\* records that vary the scalar fields of stock.info, and the balance sheet
ScalarKeys == {"totalRevenue", "currentRatio", "dividendRate", "priceToBook", "currentPrice"}
ScalarChoices ==
    { ("totalRevenue" :> 150000000) @@ ("currentRatio" :> 3) @@ ("dividendRate" :> 1)
        @@ ("priceToBook" :> 1) @@ ("currentPrice" :> 30),
      ("totalRevenue" :> 100000000) @@ ("currentRatio" :> 2) @@ ("dividendRate" :> 0)
        @@ ("priceToBook" :> 2) @@ ("currentPrice" :> 50) }

ScalarData ==
    { Ok(Restrict(f, P) @@ ("bookValue" :> 25) @@ ("sharesOutstanding" :> 1),
         BsTotalLow, NetIncome(<<3, 3, 3>>)) :
        f \in ScalarChoices, P \in SUBSET ScalarKeys }
    \cup { Ok(FullInfo @@ ("sharesOutstanding" :> 1) @@ ("currentPrice" :> 30),
              bs, NetIncome(<<3, 3, 3>>)) : bs \in BsSet }

\* records that vary the net-income history: long histories of losses and profits
\* on one share, short ones, with years of zero income, on one share and on three
\* (where the quotients are rounded)
EpsInfo(sh) == FullInfo @@ ("sharesOutstanding" :> sh) @@ ("currentPrice" :> 30)

EpsData ==
    { Ok(EpsInfo(1), BsTotalLow, NetIncome(ni)) : ni \in SeqsUpTo({-2, 3}, MaxEps) }
    \cup { Ok(EpsInfo(sh), BsTotalLow, NetIncome(ni)) :
             sh \in {1, 3}, ni \in SeqsUpTo({-2, 0, 1, 3}, MaxEpsShort) }

\* records on which price_ceiling is not the real number 15 x eps: 49 / 3 and
\* 7 / 5 are rounded, and so are their products by 15 (below 245, above 21)
RoundingData ==
    { Ok(FullInfo @@ ("sharesOutstanding" :> 3) @@ ("currentPrice" :> 245), BsTotal,
         NetIncome(<<49>>)),
      Ok(FullInfo @@ ("sharesOutstanding" :> 5) @@ ("currentPrice" :> 21), BsTotal,
         NetIncome(<<7, 7, 7>>)),
      Ok(("bookValue" :> 100) @@ ("sharesOutstanding" :> 1), BsTotal,
         NetIncome(<<95, 95, 95>>)),
      Ok(("bookValue" :> 1) @@ ("sharesOutstanding" :> 1000000), BsTotal,
         NetIncome(<<1>>)) }

\* records for the valuation: book value (negative, zero, positive, missing), share
\* counts, short histories, missing income rows and NaN entries
ValuationIncomes ==
    { NetIncome(<<>>), NetIncome(<<4, 4, 4>>), NetIncome(<<1, -2, 3>>),
      NetIncome(<<-2, -2, -2>>), NetIncome(<<1, 3>>), NetIncome(<<0, 1, 3>>), NoIncome,
      "Net Income" :> <<NaN, I(2), NaN, I(6)>>, "Net Income" :> <<NaN>> }

ValuationKeys == {"bookValue", "sharesOutstanding", "trailingEps"}

ValuationData ==
    { Ok(Restrict(("bookValue" :> bv) @@ ("sharesOutstanding" :> sh)
                    @@ ("currentPrice" :> 30) @@ ("trailingEps" :> 5) @@ FullInfo,
                  (DOMAIN FullInfo \cup {"currentPrice"} \cup ValuationKeys) \ Q),
         BsTotal, inc) :
        bv \in {-1, 0, 25}, sh \in {-1, 0, 1},
        Q \in {{}} \cup { {k} : k \in ValuationKeys },
        inc \in ValuationIncomes }

Bond(close) == [kind |-> "ok", close |-> close]
BondSet == { Raise, Bond(<<>>), Bond(<<NaN>>), Bond(<<C4_4>>),
             Bond(<<Div(C4_4, I(2)), Mul(C4_4, I(2)), NaN>>), Bond(<<C4_4, Zero>>),
             Bond(<<Div(I(531), I(100))>>) }

\* records with a history on three shares, priced under each bond yield
YieldData ==
    { Ok(EpsInfo(3), BsTotal, NetIncome(<<3, 3, 3, 4>>)),
      Ok(EpsInfo(3), BsTotal, NetIncome(<<1, -2, 3>>)) }

\* the batch: under each provider, tickers with different scores, tickers with the
\* same score, and the ways a fetch fails (the call raises, no column, a falsy label)
Scored5 == Ok(FullInfo, BsTotal, NoIncome)
Scored0 == Ok(("currentPrice" :> 30) @@ ("priceToBook" :> 2), BsEmpty, NoIncome)
Scored6 == Ok(EpsInfo(1), BsTotal, NetIncome(<<3, 3, 3, 3>>))
Unusable(bs) == Ok(FullInfo, bs, NetIncome(<<3, 3, 3>>))

Providers ==
    { ("A" :> Scored5) @@ ("B" :> Raise) @@ ("C" :> Scored0),
      ("A" :> Scored6) @@ ("B" :> Unusable(BsZeroLabel)) @@ ("C" :> Scored5),
      ("A" :> Raise) @@ ("B" :> Unusable(BsNoColumns)) @@ ("C" :> Unusable(BsBlankLabel)) }

\* ---------------------------------------------------------------- the run
Start(ts, prov, b) ==
    /\ tickers = ts
    /\ provider = prov
    /\ bond = b
    /\ pc = "idle"
    /\ i = 0
    /\ yield_value = NaN
    /\ results = <<>>
    /\ df_sorted = <<>>
    /\ report = "none"
    /\ download = None

OnlyA(d) == [t \in TickerNames |-> IF t = "A" THEN d ELSE Raise]

InitBatch ==
    \E ts \in SeqsUpTo(TickerNames, MaxTickers), prov \in Providers : Start(ts, prov, Raise)

InitScalar == \E d \in ScalarData : Start(<<"A">>, OnlyA(d), Raise)

InitEps == \E d \in EpsData \cup RoundingData : Start(<<"A">>, OnlyA(d), Raise)

InitValuation ==
    \E d \in ValuationData \cup YieldData, b \in BondSet : Start(<<"A">>, OnlyA(d), b)

Init == InitBatch \/ InitScalar \/ InitEps \/ InitValuation

\* line 162-163, 190-191: the button with no tickers
ClickRunEmpty ==
    /\ pc = "idle"
    /\ tickers = <<>>
    /\ report' = "no_tickers"
    /\ pc' = "done"
    /\ UNCHANGED <<tickers, provider, bond, i, yield_value, results, df_sorted, download>>

\* lines 162-166: the button with tickers; results = [], fetch_aaa_yield()
ClickRun ==
    /\ pc = "idle"
    /\ tickers # <<>>
    /\ results' = <<>>
    /\ yield_value' = FetchAaaYield(bond)
    /\ i' = 1
    /\ pc' = "loop"
    /\ UNCHANGED <<tickers, provider, bond, df_sorted, report, download>>

\* lines 169-170: if data: results.append(data)
AppendIfData(rows, data) == IF Truthy(data) THEN Append(rows, data) ELSE rows

\* lines 167-170: one iteration of the loop.  An exception that fetch_financials
\* lets through ends the handler (pc = "error").
LoopStep ==
    /\ pc = "loop"
    /\ i <= Len(tickers)
    /\ \E data \in {FetchFinancials(tickers[i], provider[tickers[i]], yield_value)} :
           IF IsRaised(data)
           THEN pc' = "error" /\ UNCHANGED <<results, i>>
           ELSE pc' = pc /\ results' = AppendIfData(results, data) /\ i' = i + 1
    /\ UNCHANGED <<tickers, provider, bond, yield_value, df_sorted, report, download>>

\* what pd.ExcelWriter(output, engine="xlsxwriter") and to_excel do: they write the
\* sheet, or raise (the engine cannot be imported, the sheet is too large)
ExcelWriter == {"writes", "raises"}

\* lines 172-187: the loop is over and there are results: sort, report, show the
\* table, then export.  The export is outside any try block, so an exception of
\* the writer ends the handler after the report and without a download button.
FinishSorted ==
    /\ pc = "loop"
    /\ i > Len(tickers)
    /\ results # <<>>
    /\ \E sorted \in SortValues(results), writer \in ExcelWriter :
           /\ df_sorted' = sorted
           /\ report' = "success"
           /\ IF writer = "raises"
              THEN pc' = "error" /\ download' = None
              ELSE pc' = "done" /\ download' = DownloadButton(ToExcel(sorted))
    /\ UNCHANGED <<tickers, provider, bond, i, yield_value, results>>

\* lines 188-189: the loop is over and there are no results
FinishEmpty ==
    /\ pc = "loop"
    /\ i > Len(tickers)
    /\ results = <<>>
    /\ report' = "no_valid_data"
    /\ pc' = "done"
    /\ UNCHANGED <<tickers, provider, bond, i, yield_value, results, df_sorted, download>>

Next == ClickRunEmpty \/ ClickRun \/ LoopStep \/ FinishSorted \/ FinishEmpty

Spec == Init /\ [][Next]_vars


\* ================================================================ properties
Criterion(k) == CriteriaNames[k]
InputOf(row) == provider[row["Ticker"]]
Rows == { results[k] : k \in 1..Len(results) }
Columns == {"Ticker", "Passed Count", "EPS Growth", "BVPS", "Current Price",
            "Graham Number", "Graham Value"} \cup { Criterion(k) : k \in 1..7 }
Done == pc = "done"

\* ---------------------------------------------------------------- C1
\* C1: the ranked table is ordered by Passed Count descending and rows with equal
\* Passed Count keep the order in which their tickers were processed.
C1_RankedStable ==
    Done /\ report = "success" =>
        \A a, b \in 1..Len(df_sorted) :
            a < b =>
                /\ df_sorted[a].row["Passed Count"] >= df_sorted[b].row["Passed Count"]
                /\ df_sorted[a].row["Passed Count"] = df_sorted[b].row["Passed Count"]
                       => df_sorted[a].index < df_sorted[b].index

\* ---------------------------------------------------------------- C2
\* a fetch succeeds when the provider answers and the balance sheet has a first
\* column with a usable label
FetchSucceeds(d) ==
    /\ d.kind = "ok"
    /\ d.bs.columns # <<>>
    /\ d.bs.columns[1] \notin {StrLabel(""), NumLabel(0)}
Succeeded(upto) == SelectSeq(SubSeq(tickers, 1, upto), LAMBDA t : FetchSucceeds(provider[t]))
TickersOf(df) == [k \in 1..Len(df) |-> df[k]["Ticker"]]

\* the rows collected so far are complete and are those of the succeeded tickers
\* among the first `upto`, in processing order
RowsAreSucceeded(upto) ==
    /\ \A k \in 1..Len(results) : DOMAIN results[k] = Columns
    /\ TickersOf(results) = Succeeded(upto)

\* the table holds every collected row exactly once
TableIsResults ==
    /\ Len(df_sorted) = Len(results)
    /\ { df_sorted[k].index : k \in 1..Len(df_sorted) } = 1..Len(results)
    /\ \A k \in 1..Len(df_sorted) : df_sorted[k].row = results[df_sorted[k].index]

\* C2: whatever the pattern of per-ticker failures, the run never ends in an error,
\* goes on to every later ticker, emits only complete rows, and ends with exactly one
\* row per ticker whose fetch succeeded.
C2_FailuresDropped ==
    /\ pc # "error"
    /\ pc = "loop" => RowsAreSucceeded(i - 1)
    /\ Done /\ tickers # <<>> =>
        /\ i = Len(tickers) + 1
        /\ RowsAreSucceeded(Len(tickers))
        /\ TableIsResults

\* C2 as amended: whatever the pattern of per-ticker failures, fetching, scoring and
\* ranking raise no error: the run goes on to every later ticker, emits only complete
\* rows, and the table it reports has exactly one row per ticker whose fetch
\* succeeded.  An error reaches the caller only from the spreadsheet export, after
\* every ticker has been processed and that table has been reported, and then no
\* download is offered.
C2_FailuresDroppedBeforeExport ==
    /\ pc = "error" => report = "success" /\ download = None
    /\ pc = "loop" => RowsAreSucceeded(i - 1) /\ report = "none"
    /\ pc \in {"done", "error"} /\ tickers # <<>> =>
        /\ i = Len(tickers) + 1
        /\ RowsAreSucceeded(Len(tickers))
        /\ TableIsResults
    /\ report = "success" => Succeeded(Len(tickers)) # <<>>
    /\ Done /\ report = "success" => download = DownloadButton(ToExcel(df_sorted))

C2_Witness ==
    /\ Done
    /\ Len(tickers) = 3
    /\ ~FetchSucceeds(provider[tickers[2]])
    /\ FetchSucceeds(provider[tickers[1]]) /\ FetchSucceeds(provider[tickers[3]])
    /\ Len(df_sorted) = 2
    /\ Len(download.data.lines) = 2

\* ---------------------------------------------------------------- C3
TrueCriteria(row) == { k \in 1..7 : row[Criterion(k)] }

\* C3: Passed Count is an integer in 0..7 equal to the number of true values among
\* the seven named criteria, whatever the other fields of the row are.
C3_PassedCount ==
    \A row \in Rows :
        /\ row["Passed Count"] \in 0..7
        /\ row["Passed Count"] = Cardinality(TrueCriteria(row))

C3_Witness ==
    \E row \in Rows : TrueCriteria(row) = {1, 2, 4} /\ row["Passed Count"] = 3

\* ---------------------------------------------------------------- C4
NoEpsData(d) == EpsValues(d.info, d.inc) = <<>>
NoBalanceItems(d) == DOMAIN d.bs.rows = {}

\* C4: a criterion whose required input is absent evaluates to false.
C4_FailClosed ==
    \A row \in Rows :
        LET d == InputOf(row)
        IN  /\ "totalRevenue" \notin DOMAIN d.info => ~row[Criterion(1)]
            /\ "currentRatio" \notin DOMAIN d.info => ~row[Criterion(2)]
            /\ NoBalanceItems(d) => ~row[Criterion(3)]
            /\ "dividendRate" \notin DOMAIN d.info => ~row[Criterion(4)]
            /\ NoEpsData(d) => ~row[Criterion(5)]
            /\ "currentPrice" \notin DOMAIN d.info => ~row[Criterion(6)]
            /\ "priceToBook" \notin DOMAIN d.info => ~row[Criterion(7)]

\* ---------------------------------------------------------------- C5
Eps3yrAvgOf(d) == EpsAvg(EpsValues(d.info, d.inc), 3)

\* C5: criterion 6 is true exactly when the price is present, the 3-year average EPS
\* is positive and price <= 15 x that average.
C5_PriceCeiling3Y ==
    \A row \in Rows :
        LET d == InputOf(row)
        IN  row[Criterion(6)] <=>
                /\ "currentPrice" \in DOMAIN d.info
                /\ Gt(Eps3yrAvgOf(d), Zero)
                /\ Le(I(d.info["currentPrice"]), Mul(I(15), Eps3yrAvgOf(d)))

\* ---------------------------------------------------------------- C6
\* absent (nan), or present, finite and above zero
AbsentOrPositive(x) == x.k = "nan" \/ (x.k = "num" /\ x.s = 0 /\ x.m # <<>>)

\* C6: grahamNumber and grahamValue are each absent or strictly positive and finite;
\* grahamNumber is absent when bookValuePerShare <= 0 or eps7yrAverage <= 0 and
\* grahamValue is absent when eps5yrAverage <= 0.
C6_ValuationPositive ==
    \A row \in Rows :
        LET d == InputOf(row)
            eps == EpsValues(d.info, d.inc)
        IN  /\ AbsentOrPositive(row["Graham Number"])
            /\ AbsentOrPositive(row["Graham Value"])
            /\ (row["BVPS"] <= 0 \/ Le(Eps7yrAvg(eps), Zero)) => row["Graham Number"] = NaN
            /\ Le(Eps5yrAvg(eps), Zero) => row["Graham Value"] = NaN

\* ---------------------------------------------------------------- C7
YieldUnavailable == bond.kind = "raise" \/ DropNa(bond.close) = <<>>
LatestClose == LET c == DropNa(bond.close) IN c[Len(c)]

\* C7: a zero or unavailable bond yield is replaced by 4.4, so the yield the
\* valuation divides by is always > 0.
C7_YieldGuard ==
    pc \in {"loop", "done"} /\ tickers # <<>> =>
        /\ Gt(yield_value, Zero)
        /\ (YieldUnavailable \/ Eq(LatestClose, Zero)) => yield_value = DefaultYield

\* ---------------------------------------------------------------- C8
NoNetIncome(d) == "Net Income" \notin DOMAIN d.inc \/ DropNa(d.inc["Net Income"]) = <<>>
SharesOf(d) == Get(d.info, "sharesOutstanding", 0)
NeedsFallback(d) == NoNetIncome(d) \/ ~(SharesOf(d) > 0)

\* C8: without net income or without a positive share count the EPS series is
\* 7 copies of trailingEps, so it is empty only when trailingEps is unknown.
C8_TrailingFallback ==
    \A row \in Rows :
        LET d == InputOf(row)
        IN  NeedsFallback(d) /\ "trailingEps" \in DOMAIN d.info =>
                EpsValues(d.info, d.inc) = [j \in 1..7 |-> I(d.info["trailingEps"])]

\* ---------------------------------------------------------------- C9
\* C9: a run with no valid result (every fetch failed, or no tickers) ends without
\* an exception, with an empty table and the "no valid data" report; a run with some
\* result does not give that report.
C9_NoValidData ==
    /\ pc = "error" => results # <<>>
    /\ Done =>
        /\ results = <<>> => df_sorted = <<>> /\ report = "no_valid_data"
        /\ results # <<>> => report # "no_valid_data"

\* ---------------------------------------------------------------- C10
PositiveAt(eps) == { j \in 1..Len(eps) : ~IsZero(eps[j]) /\ eps[j].s = 0 }
First(S) == CHOOSE x \in S : \A y \in S : x <= y
Last(S) == CHOOSE x \in S : \A y \in S : x >= y

\* C10: growth is 0 with fewer than 2 positive entries; otherwise it is
\* (last positive - first positive) / first positive over the positive entries in
\* series order (the double nearest to the quotient of the rounded difference), and
\* the divisor is not zero.
C10_GrowthOverPositives ==
    \A row \in Rows :
        LET d == InputOf(row)
            eps == EpsValues(d.info, d.inc)
            P == PositiveAt(eps)
            g == row["EPS Growth"]
        IN  IF Cardinality(P) < 2 THEN g = Zero
            ELSE /\ ~IsZero(eps[First(P)])
                 /\ g.k = "num"
                 /\ g = Div(Sub(eps[Last(P)], eps[First(P)]), eps[First(P)])

C10_Witness ==
    \E row \in Rows :
        /\ EpsValues(InputOf(row).info, InputOf(row).inc) = <<I(1), I(-2), I(3)>>
        /\ row["EPS Growth"] = I(2)

====
